---- MODULE Spec2Model ----
(***************************************************************************)
(* Dementia: a 31-day degrading image/sound artwork.                       *)
(*                                                                         *)
(*   - the degradation curves getParams / getSoundParams (pure functions   *)
(*     of the day), in exact rational arithmetic;                          *)
(*   - ShaderCalendar, the WebGL feedback pipeline, with the image loads   *)
(*     in flight, the requestAnimationFrame chains and the context         *)
(*     loss / restore events;                                              *)
(*   - DementiaSound, the Web Audio engine;                                *)
(*   - the page script: init, the day navigation, the sound keys.          *)
(*                                                                         *)
(* Numbers.  t = (day - 1) / 30, so every easing value is a multiple of    *)
(* 1/27000 and every parameter, whose literals have at most three          *)
(* decimals, is a multiple of 1/27000000.  A parameter is held as the      *)
(* integer  value * 27000 * 1000  ("milli" literals times 27000); only     *)
(* filterFrequency, whose literals are whole Hz, is held as value * 27000. *)
(* The arithmetic is that of the rationals: the rounding of IEEE doubles   *)
(* (at most an ulp per operation) is not part of the model.                *)
(***************************************************************************)
EXTENDS Integers, Sequences, FiniteSets, TLC

VARIABLES
    curve,          \* the curve evaluation under test: inputs and results
    shade,          \* the shader evaluation under test: inputs and result
    ref,            \* the reference pipeline (shader/main.js): its globals
    wall,           \* wall time at the ShaderCalendar's frame callbacks
    glContext,      \* what canvas.getContext('webgl') returned: "webgl", or "none" (null)
    contextLost,    \* the canvas' WebGL context is lost
    time,           \* ShaderCalendar.time, in units of 1/60 s
    animationId,    \* ShaderCalendar.animationId: 0 (null) or the chain whose request it holds
    loops,          \* the pending requestAnimationFrame(animate) requests, oldest first
    currentDay,     \* ShaderCalendar.currentDay
    currentImage,   \* ShaderCalendar.currentImage: 0 (null) or the image's src
    lastImageSrc,   \* ShaderCalendar.lastImageSrc: 0 (undefined) or a src
    sourceTexture,  \* ShaderCalendar.sourceTexture: NoObject, or the texture's contents
    fbos,           \* ShaderCalendar.fbos: source, image, map, displace
    screen,         \* the contents of the default framebuffer (what is presented)
    loads,          \* the loadImage calls in flight (their images not yet decoded)
    micro,          \* the microtask queue: the continuation of displayImage after its await
    draws,          \* the draw calls issued by the last step, in order
    frames,         \* render() bodies executed since the last initialize()
    lastOp,         \* the last operation that ran, with its arguments and result
    snd,            \* the DementiaSound object
    sndOp,          \* the last sound operation, with its arguments and result
    ui              \* the page (script.js): selectedDay, localStorage, soundAutoStarted

curveVars == <<curve>>
refVars == <<ref, wall>>
evalVars == <<curve, shade, ref, wall, ui>>
pipeVars == <<glContext, contextLost, time, animationId, loops, currentDay, currentImage,
              lastImageSrc, sourceTexture, fbos, screen, loads, micro, draws,
              frames, lastOp>>
sndVars == <<snd, sndOp>>
vars == <<curve, shade, ref, wall, glContext, contextLost, time, animationId, loops, currentDay, currentImage,
          lastImageSrc, sourceTexture, fbos, screen, loads, micro, draws,
          frames, lastOp, snd, sndOp, ui>>

(***************************************************************************)
(* Bounds and program constants                                            *)
(***************************************************************************)
LastDay == 31
MaxNavDay == 1
MaxLoads == 1
MaxFrames == 2
MaxLoops == 2

AllDays == 1..LastDay
NavDays == (1..MaxNavDay) \cup {LastDay}
Srcs == {1, LastDay}

(***************************************************************************)
(* The degradation curves                                                  *)
(***************************************************************************)
CurveT_offByOne(day) == day
\* the numerator of t = (day - 1) / 30
CurveT(day) == day - 1

\* 27000 * t^3
EaseIn(n) == n * n * n

\* 27000 * (1 - (1 - t)^2)
EaseOut(n) == 27000 - 30 * (30 - n) * (30 - n)

EaseMix_nosmooth(n) == n * n * (60 - 2 * n)
\* 27000 * t^2 (3 - 2t)
EaseMix(n) == n * n * (90 - 2 * n)

getParams_blur32(day) ==
    LET n == CurveT(day) IN
    [ image_blur    |-> 100 * 27000 + EaseIn(n) * 32000,
      uv_scale      |-> 500 * 27000 + EaseMix(n) * 3500,
      depth_scale   |-> 200 * 27000 + EaseIn(n) * 3800,
      rgb_scale     |-> 300 * 27000 + EaseMix(n) * 2200,
      rgb_mix       |-> 100 * 27000 + EaseOut(n) * 850,
      src_weight    |-> 6000 * 27000 - EaseOut(n) * 3500,
      hard_level    |-> 200 * 27000 + EaseMix(n) * 2500,
      hard_contrast |-> 980 * 27000 - EaseOut(n) * 450,
      mask_level    |-> 1000 * 27000 + EaseOut(n) * 2000,
      mask_contrast |-> 900 * 27000 - EaseOut(n) * 350,
      mask_weight   |-> 800 * 27000 - EaseOut(n) * 500,
      hard_weight   |-> 500 * 27000 + EaseIn(n) * 7500,
      soft_weight   |-> 300 * 27000 + EaseIn(n) * 7200,
      time_scale    |-> 5 * 27000 + EaseOut(n) * 95,
      map_blur      |-> 2000 * 27000 + EaseMix(n) * 20000 ]

getParams(day) ==
    LET n == CurveT(day) IN
    [ image_blur    |-> 100 * 27000 + EaseIn(n) * 31900,
      uv_scale      |-> 500 * 27000 + EaseMix(n) * 3500,
      depth_scale   |-> 200 * 27000 + EaseIn(n) * 3800,
      rgb_scale     |-> 300 * 27000 + EaseMix(n) * 2200,
      rgb_mix       |-> 100 * 27000 + EaseOut(n) * 850,
      src_weight    |-> 6000 * 27000 - EaseOut(n) * 3500,
      hard_level    |-> 200 * 27000 + EaseMix(n) * 2500,
      hard_contrast |-> 980 * 27000 - EaseOut(n) * 450,
      mask_level    |-> 1000 * 27000 + EaseOut(n) * 2000,
      mask_contrast |-> 900 * 27000 - EaseOut(n) * 350,
      mask_weight   |-> 800 * 27000 - EaseOut(n) * 500,
      hard_weight   |-> 500 * 27000 + EaseIn(n) * 7500,
      soft_weight   |-> 300 * 27000 + EaseIn(n) * 7200,
      time_scale    |-> 5 * 27000 + EaseOut(n) * 95,
      map_blur      |-> 2000 * 27000 + EaseMix(n) * 20000 ]

\* filterFrequency in Hz * 27000, the others in 1/1000 * 27000
getSoundParams(day) ==
    LET n == CurveT(day) IN
    [ filterFrequency |-> 12000 * 27000 - EaseOut(n) * 8000,
      filterQ         |-> 700 * 27000,
      detuneAmount    |-> 0 + EaseMix(n) * 5000,
      detuneSpeed     |-> 50 * 27000 + EaseOut(n) * 150,
      reverbMix       |-> 100 * 27000 + EaseIn(n) * 650,
      reverbDecay     |-> 500 * 27000 + EaseIn(n) * 2500,
      dryGain         |-> 1000 * 27000 - EaseOut(n) * 500,
      melodyGain      |-> 300 * 27000 - EaseOut(n) * 100,
      vibratoDepth    |-> 300 * 27000 + EaseMix(n) * 700,
      vibratoSpeed    |-> 1500 * 27000 + EaseOut(n) * 1000,
      playbackRate    |-> 1000 * 27000 - EaseIn(n) * 200 ]

\* The documented endpoints, in the units of getParams: the comments of
\* getParams and the "Core Parameters by Day" table.
DocVisualDay1 ==
    [ image_blur |-> 100, uv_scale |-> 500, depth_scale |-> 200, rgb_scale |-> 300,
      rgb_mix |-> 100, src_weight |-> 6000, hard_level |-> 200, hard_contrast |-> 980,
      mask_level |-> 1000, mask_contrast |-> 900, mask_weight |-> 800,
      hard_weight |-> 500, soft_weight |-> 300, time_scale |-> 5, map_blur |-> 2000 ]

DocVisualDay31 ==
    [ image_blur |-> 32000, uv_scale |-> 4000, depth_scale |-> 4000, rgb_scale |-> 2500,
      rgb_mix |-> 950, src_weight |-> 2500, hard_level |-> 2700, hard_contrast |-> 530,
      mask_level |-> 3000, mask_contrast |-> 550, mask_weight |-> 300,
      hard_weight |-> 8000, soft_weight |-> 7500, time_scale |-> 100, map_blur |-> 22000 ]

\* The documented audio endpoints (the parameter table of the sound
\* documentation): filterFrequency in Hz, the others in 1/1000.
DocSoundDay1 ==
    [ filterFrequency |-> 12000, detuneAmount |-> 0, reverbMix |-> 100,
      reverbDecay |-> 500, dryGain |-> 1000, vibratoSpeed |-> 1500,
      playbackRate |-> 1000 ]

DocSoundDay31 ==
    [ filterFrequency |-> 4000, detuneAmount |-> 5000, reverbMix |-> 750,
      reverbDecay |-> 3000, dryGain |-> 500, vibratoSpeed |-> 2500,
      playbackRate |-> 800 ]

(***************************************************************************)
(* The fragment shaders on concrete fields                                 *)
(*                                                                         *)
(* A field is a Res x Res texture of one channel, its texels whole         *)
(* multiples of 1/TexUnit.  A sampled or computed value is a rational      *)
(* <<n, d>> in lowest terms.  Positions are in pixels (uv * res), so the   *)
(* "/ res" and "* res" of the shaders cancel.  The shaders work on vec4s   *)
(* channel by channel; one colour channel stands for the four.             *)
(***************************************************************************)
Res == 2
Directions == 16
Quality == 3
\* the sampler's sub-texel grid: coordinates are snapped to 1/SubTexel texel
SubTexel == 16
\* texel values 0, 1/2, 1 and the steps of a ramp across the field
TexUnit == 2 * (Res - 1)

Texels == (0..(Res - 1)) \X (0..(Res - 1))

Abs(n) == IF n < 0 THEN -n ELSE n

RECURSIVE GCD(_, _)
GCD(a, b) == IF b = 0 THEN a ELSE GCD(b, a % b)

Q(n, d) == LET g == GCD(Abs(n), d) IN <<n \div g, d \div g>>
QAdd(a, b) == Q(a[1] * b[2] + b[1] * a[2], a[2] * b[2])
QSub(a, b) == Q(a[1] * b[2] - b[1] * a[2], a[2] * b[2])
QMul(a, b) == Q(a[1] * b[1], a[2] * b[2])
QFloor(a) == a[1] \div a[2]
Zero == Q(0, 1)
Half == Q(1, 2)
One == Q(1, 1)

\* the test fields, in 1/TexUnit
Pattern(name) ==
    [t \in Texels |->
        CASE name = "zero"  -> 0
          [] name = "half"  -> TexUnit \div 2
          [] name = "one"   -> TexUnit
          [] name = "rampX" -> t[1] * (TexUnit \div (Res - 1))
          [] name = "rampY" -> t[2] * (TexUnit \div (Res - 1))
          [] name = "check" -> ((t[1] + t[2]) % 2) * TexUnit]

\* cos and sin of 2 Pi d / 16, in 1/1000
CosSin(d) ==
    LET c == <<1000, 924, 707, 383, 0, -383, -707, -924,
               -1000, -924, -707, -383, 0, 383, 707, 924>>
    IN  <<c[d + 1], c[((d + 12) % 16) + 1]>>

\* a coordinate n/d snapped to the sub-texel grid: floor(c * SubTexel + 1/2)
Snap(c) == (2 * c[1] * SubTexel + c[2]) \div (2 * c[2])

\* one axis of a LINEAR, CLAMP_TO_EDGE lookup at a snapped coordinate: the
\* two texels it falls between and the weight of the second, in 1/SubTexel
Axis(snapped) ==
    LET shifted == snapped - SubTexel \div 2
        t == IF shifted < 0 THEN 0
             ELSE IF shifted > (Res - 1) * SubTexel THEN (Res - 1) * SubTexel
             ELSE shifted
        i == t \div SubTexel
    IN  [lo |-> i, hi |-> IF i + 1 > Res - 1 THEN i ELSE i + 1,
         w |-> t % SubTexel]

\* the bilinear lookup, in 1/(TexUnit * SubTexel^2)
Lookup(tex, pos) ==
    LET ax == Axis(Snap(pos[1]))
        ay == Axis(Snap(pos[2]))
    IN  (SubTexel - ay.w) * ((SubTexel - ax.w) * tex[<<ax.lo, ay.lo>>]
                             + ax.w * tex[<<ax.hi, ay.lo>>])
        + ay.w * ((SubTexel - ax.w) * tex[<<ax.lo, ay.hi>>]
                  + ax.w * tex[<<ax.hi, ay.hi>>])

\* texture2D(tex, pos)
texture2D(tex, pos) == Q(Lookup(tex, pos), TexUnit * SubTexel * SubTexel)

\* mix(x, y, a) = x (1 - a) + y a
mix(x, y, a) == QAdd(QMul(x, QSub(One, a)), QMul(y, a))

\* uv + dir * radius * offset for direction d and step i (not reduced)
BlurPos(uv, size, d, i) ==
    LET dir == CosSin(d)
    IN  << <<uv[1][1] * 1000 * Quality + dir[1] * size * i * uv[1][2],
             uv[1][2] * 1000 * Quality>>,
           <<uv[2][1] * 1000 * Quality + dir[2] * size * i * uv[2][2],
             uv[2][2] * 1000 * Quality>> >>

RECURSIVE SumSamples(_, _, _, _)
\* Color += texture2D(...) over the samples k = d * Quality + (i - 1), from k up
SumSamples(tex, uv, size, k) ==
    IF k = Directions * Quality THEN 0
    ELSE Lookup(tex, BlurPos(uv, size, k \div Quality, (k % Quality) + 1))
         + SumSamples(tex, uv, size, k + 1)

\* blur() dividing by the number of ring samples only
blur_noCenterCount(tex, uv, size) ==
    Q(Lookup(tex, uv) + SumSamples(tex, uv, size, 0),
      (Quality * Directions) * TexUnit * SubTexel * SubTexel)

\* blur(tex, uv, res) with Size = size, a whole number of pixels
blur(tex, uv, size) ==
    Q(Lookup(tex, uv) + SumSamples(tex, uv, size, 0),
      (Quality * Directions + 1) * TexUnit * SubTexel * SubTexel)

\* displaceShader main() reading the mask from the blurred map
displace_blurredMask(source, image, map, uv, hard_weight, soft_weight, blur_size) ==
    LET source_color == texture2D(source, uv)
        map_blur == [c \in {"x", "y", "z", "w"} |-> blur(map[c], uv, blur_size)]
        dsp_hard == [c \in {"x", "y"} |->
                        Q(QFloor(QAdd(QMul(QMul(QSub(map_blur[c], Half), hard_weight),
                                           Q(2, 1)), Half)), 1)]
        dsp_soft == [c \in {"x", "y"} |->
                        QMul(QMul(QSub(map_blur[c], Half), soft_weight), Q(2, 1))]
        hard_mask == map_blur.z
        source_mask == map_blur.w
        displaced_hard == texture2D(image, << QAdd(uv[1], dsp_hard.x),
                                              QAdd(uv[2], dsp_hard.y) >>)
        displaced_soft == texture2D(image, << QAdd(uv[1], dsp_soft.x),
                                              QAdd(uv[2], dsp_soft.y) >>)
        displaced == mix(displaced_hard, displaced_soft, hard_mask)
    IN  mix(displaced, source_color, QSub(One, source_mask))

\* displaceShader main(): map is the four channels x, y, z, w of the map
displace(source, image, map, uv, hard_weight, soft_weight, blur_size) ==
    LET source_color == texture2D(source, uv)
        map_color == [c \in {"w"} |-> texture2D(map[c], uv)]
        map_blur == [c \in {"x", "y", "z"} |-> blur(map[c], uv, blur_size)]
        dsp_hard == [c \in {"x", "y"} |->
                        Q(QFloor(QAdd(QMul(QMul(QSub(map_blur[c], Half), hard_weight),
                                           Q(2, 1)), Half)), 1)]
        dsp_soft == [c \in {"x", "y"} |->
                        QMul(QMul(QSub(map_blur[c], Half), soft_weight), Q(2, 1))]
        hard_mask == map_blur.z
        source_mask == map_color.w
        displaced_hard == texture2D(image, << QAdd(uv[1], dsp_hard.x),
                                              QAdd(uv[2], dsp_hard.y) >>)
        displaced_soft == texture2D(image, << QAdd(uv[1], dsp_soft.x),
                                              QAdd(uv[2], dsp_soft.y) >>)
        displaced == mix(displaced_hard, displaced_soft, hard_mask)
    IN  mix(displaced, source_color, QSub(One, source_mask))

\* the inputs the shaders are evaluated on
MaxBlur == 1
MaxWeight == 1
UVs == { <<Q(1, 2), Q(1, 2)>>, <<Q(1, 1), Q(3, 4)>> }
BlurFields == {"zero", "half", "one", "rampX", "rampY", "check"}

ShadeIdle ==
    [ pass |-> "none", tex |-> "zero", source |-> "zero", image |-> "zero",
      map |-> [x |-> "zero", y |-> "zero", z |-> "zero", w |-> "zero"],
      uv |-> <<Zero, Zero>>, size |-> 0, hard_weight |-> 0, soft_weight |-> 0,
      done |-> FALSE, out |-> Zero ]

BlurInputs ==
    { [ShadeIdle EXCEPT !.pass = "blur", !.tex = f, !.uv = uv, !.size = sz] :
        f \in BlurFields, uv \in UVs, sz \in 0..MaxBlur }

DisplaceInputs ==
    { [ShadeIdle EXCEPT !.pass = "displace", !.source = src, !.image = img,
                        !.map = [x |-> m[1], y |-> m[2], z |-> m[3], w |-> m[4]],
                        !.uv = uv, !.size = p[1], !.hard_weight = p[2],
                        !.soft_weight = p[3]] :
        src \in {"rampX", "check"}, img \in {"rampY", "one"},
        m \in {"one", "rampX"} \X {"zero", "rampY"} \X {"half", "check"}
                \X {"zero", "half", "rampY"},
        uv \in UVs,
        p \in (0..MaxBlur) \X (0..MaxWeight) \X (0..MaxWeight) }

(***************************************************************************)
(* ShaderCalendar: textures, shaders and draw calls                        *)
(*                                                                         *)
(* The contents of a texture are a tuple led by a tag: what was uploaded   *)
(* or which pass wrote it from which inputs.  Two fields are equal when    *)
(* they were produced the same way from equal inputs.                      *)
(***************************************************************************)
\* null / undefined
NoObject == <<"null">>
\* a GL object whose contents went with a lost context (the JS handle stays truthy)
LostContents == <<"lost">>
\* a texture allocated by texImage2D(..., null)
Blank == <<"blank">>
\* the texture uploaded from the decoded image src
ImageTex(src) == <<"img", src>>

Truthy(x) == x # NoObject

RemoveAt(s, i) == SubSeq(s, 1, i - 1) \o SubSeq(s, i + 1, Len(s))

\* blitShader with fit = false, nearest = false: gl_FragColor = texture2D(tex, uv)
BlitShader(tex) == tex

\* the day-dependent uniforms render() hands to the map pass
MapUniforms(params) ==
    [ uv_scale |-> <<params.uv_scale, params.uv_scale, params.depth_scale>>,
      map_weight |-> params.rgb_scale, src_weight |-> params.src_weight,
      rgb_mix |-> params.rgb_mix, hard_level |-> params.hard_level,
      hard_contrast |-> params.hard_contrast, mask_level |-> params.mask_level,
      mask_contrast |-> params.mask_contrast, mask_weight |-> params.mask_weight,
      blur_size |-> params.image_blur, time_scale |-> params.time_scale ]

\* the day-dependent uniforms render() hands to the displace pass
DisplaceUniforms(params) ==
    [ hard_weight |-> params.hard_weight, soft_weight |-> params.soft_weight,
      blur_size |-> params.map_blur ]

\* mapShader: a function of the source, the working image, the time uniform
\* (this.time; the fixed seed offset is left out) and the uniforms
MapShader(source, image, t, uniforms) == <<"map", source, image, t, uniforms>>

\* displaceShader: a function of source, working image, map and the uniforms
DisplaceShader(source, image, map, uniforms) ==
    <<"displace", source, image, map, uniforms>>

\* The object's mutable state as one record, so that handlers compose.
GL == [ lost |-> contextLost, time |-> time, frames |-> frames,
        animationId |-> animationId, loops |-> loops,
        sourceTexture |-> sourceTexture, fbos |-> fbos, screen |-> screen,
        draws |-> <<>> ]

\* draw(program, fbo, uniforms): on a lost context every GL call is a no-op;
\* a null fbo binds the default framebuffer.
draw(g, program, target, inputs, out) ==
    LET g1 == [g EXCEPT !.draws = Append(@, [program |-> program,
                                             target |-> target,
                                             inputs |-> inputs])]
    IN  IF g.lost THEN g1
        ELSE IF target = "screen" \/ ~Truthy(g.fbos[target])
             THEN [g1 EXCEPT !.screen = out]
             ELSE [g1 EXCEPT !.fbos[target] = out]

\* createTexture(img) and the resizeFramebuffers it ends with.  On a lost
\* context gl.createTexture() returns null or an invalidated object, as the
\* browser has it (nullOnLost).
createTexture(g, src, nullOnLost) ==
    [g EXCEPT !.sourceTexture = IF g.lost
                                THEN (IF nullOnLost THEN NoObject ELSE LostContents)
                                ELSE ImageTex(src),
              !.fbos = [k \in DOMAIN g.fbos |->
                            IF g.lost THEN LostContents ELSE Blank]]

initialize_keepImage(g) ==
    draw([g EXCEPT !.time = 0, !.frames = 0], "blit", "source",
         {"sourceTexture"}, BlitShader(g.sourceTexture))

initialize(g) ==
    LET g1 == [g EXCEPT !.time = 0, !.frames = 0]
        g2 == draw(g1, "blit", "source", {"sourceTexture"},
                   BlitShader(g1.sourceTexture))
    IN  draw(g2, "blit", "image", {"source"}, BlitShader(g2.fbos.source))

\* render() with the copy-back issued after the present
render_presentFirst(g, day) ==
    IF ~Truthy(g.sourceTexture) THEN g
    ELSE
    LET params == getParams(day)
        g1 == draw(g, "map", "map", {"source", "image"},
                   MapShader(g.fbos.source, g.fbos.image, g.time,
                             MapUniforms(params)))
        g2 == draw(g1, "displace", "displace", {"source", "image", "map"},
                   DisplaceShader(g1.fbos.source, g1.fbos.image, g1.fbos.map,
                                  DisplaceUniforms(params)))
        g3 == draw(g2, "blit", "screen", {"image"}, BlitShader(g2.fbos.image))
        g4 == draw(g3, "blit", "image", {"displace"}, BlitShader(g3.fbos.displace))
    IN  [g4 EXCEPT !.time = @ + 1, !.frames = @ + 1]

\* render() with the copy-back written over the source field
render_overSource(g, day) ==
    IF ~Truthy(g.sourceTexture) THEN g
    ELSE
    LET params == getParams(day)
        g1 == draw(g, "map", "map", {"source", "image"},
                   MapShader(g.fbos.source, g.fbos.image, g.time,
                             MapUniforms(params)))
        g2 == draw(g1, "displace", "displace", {"source", "image", "map"},
                   DisplaceShader(g1.fbos.source, g1.fbos.image, g1.fbos.map,
                                  DisplaceUniforms(params)))
        g3 == draw(g2, "blit", "source", {"displace"}, BlitShader(g2.fbos.displace))
        g4 == draw(g3, "blit", "screen", {"image"}, BlitShader(g3.fbos.image))
    IN  [g4 EXCEPT !.time = @ + 1, !.frames = @ + 1]

\* render() without its early return
render_noGuard(g, day) ==
    LET params == getParams(day)
        g1 == draw(g, "map", "map", {"source", "image"},
                   MapShader(g.fbos.source, g.fbos.image, g.time,
                             MapUniforms(params)))
        g2 == draw(g1, "displace", "displace", {"source", "image", "map"},
                   DisplaceShader(g1.fbos.source, g1.fbos.image, g1.fbos.map,
                                  DisplaceUniforms(params)))
        g3 == draw(g2, "blit", "image", {"displace"}, BlitShader(g2.fbos.displace))
        g4 == draw(g3, "blit", "screen", {"image"}, BlitShader(g3.fbos.image))
    IN  [g4 EXCEPT !.time = @ + 1, !.frames = @ + 1]

render(g, day) ==
    IF ~Truthy(g.sourceTexture) THEN g
    ELSE
    LET params == getParams(day)
        g1 == draw(g, "map", "map", {"source", "image"},
                   MapShader(g.fbos.source, g.fbos.image, g.time,
                             MapUniforms(params)))
        g2 == draw(g1, "displace", "displace", {"source", "image", "map"},
                   DisplaceShader(g1.fbos.source, g1.fbos.image, g1.fbos.map,
                                  DisplaceUniforms(params)))
        g3 == draw(g2, "blit", "image", {"displace"}, BlitShader(g2.fbos.displace))
        g4 == draw(g3, "blit", "screen", {"image"}, BlitShader(g3.fbos.image))
    IN  [g4 EXCEPT !.time = @ + 1, !.frames = @ + 1]

\* startAnimation(): animate() runs at once: it renders, then requests the
\* next frame and keeps the request's id.  A request is named by its place
\* among the pending ones; animationId, when set, names the newest
\* (AnimationIdIsNewest), so cancelling it renames none.
startAnimation(g, day) ==
    LET g1 == render(g, day)
        c == Len(g.loops) + 1
    IN  [g1 EXCEPT !.loops = Append(@, c), !.animationId = c]

\* stopAnimation(): cancels the one request animationId names
stopAnimation(g) ==
    IF g.animationId # 0
    THEN [g EXCEPT !.loops = SelectSeq(@, LAMBDA c : c # g.animationId),
                   !.animationId = 0]
    ELSE g

\* one display frame: every pending animate callback runs, oldest first
RECURSIVE animate(_, _, _)
animate(g, day, pending) ==
    IF pending = <<>> THEN g
    ELSE animate([render(g, day) EXCEPT !.animationId = Head(pending)],
                 day, Tail(pending))

Assign(g) ==
    /\ contextLost' = g.lost
    /\ time' = g.time
    /\ frames' = g.frames
    /\ animationId' = g.animationId
    /\ loops' = g.loops
    /\ sourceTexture' = g.sourceTexture
    /\ fbos' = g.fbos
    /\ screen' = g.screen
    /\ draws' = g.draws

\* day: the argument of setDay (0 for the other operations)
Op(op, day, result) == [op |-> op, day |-> day, result |-> result]

(***************************************************************************)
(* DementiaSound                                                           *)
(*                                                                         *)
(* An AudioParam is its value and the last ramp scheduled on it:           *)
(* <<>> or <<target, ms after the scheduling call>>.  Units: filter        *)
(* parameters as in getSoundParams; a pad's gain in 1/100, its reverb      *)
(* send in 1/10 and its LFO parameters in 1/2 of those units, so that      *)
(* 0.06 / 3, 0.7 and 0.5 times a parameter stay whole.  osc.detune, which  *)
(* only the detune modulation writes, is not part of the state.            *)
(***************************************************************************)
MaxTimers == 2
MaxAwaiting == 2

\* this.padFrequencies, in 1/100 Hz
padFrequencies == <<13081, 16481, 19600>>

\* this.melodyNotes: freq in 1/100 Hz, duration in ms
melodyNotes ==
    << [freq |-> 26163, duration |-> 2000], [freq |-> 32963, duration |-> 1500],
       [freq |-> 39200, duration |-> 1500], [freq |-> 32963, duration |-> 1000],
       [freq |-> 29366, duration |-> 2000], [freq |-> 26163, duration |-> 2000],
       [freq |-> 22000, duration |-> 3000], [freq |-> 26163, duration |-> 2500] >>

\* this.baseFrequencies: no code of DementiaSound ever assigns it
baseFrequencies == NoObject

Param(v) == [value |-> v, ramp |-> <<>>]

\* param.linearRampToValueAtTime(target, now + ms / 1000)
linearRampToValueAtTime(p, target, ms) == [p EXCEPT !.ramp = <<target, ms>>]

\* the value a ramp passes through half-way, times 2
MidRampTimes2(p) == p.value + p.ramp[1]

\* the constructor
NewSound ==
    [ audioContext |-> "null", masterGain |-> <<>>, reverbNode |-> FALSE,
      reverbGain |-> <<>>, oscillators |-> <<>>, isPlaying |-> FALSE,
      currentDay |-> 1, awaiting |-> <<>>, timers |-> <<>>, faded |-> <<>> ]

Done(s) == [s |-> s, thrown |-> "none"]
Throw(s, e) == [s |-> s, thrown |-> e]

\* init() from "Master gain control" on, createReverb included
finishInit(s) ==
    [s EXCEPT !.masterGain = <<20>>, !.reverbNode = TRUE,
              !.reverbGain = <<Param(1000 * 27000)>>]

\* one iteration of start()'s padFrequencies.forEach
padVoice(freq, params) ==
    [ baseFreq |-> freq, isPad |-> TRUE,
      filterFrequency |-> Param(params.filterFrequency),
      filterQ |-> Param(params.filterQ),
      gain |-> linearRampToValueAtTime(Param(0), 2 * params.dryGain, 3000),
      reverbGain |-> Param(7 * params.reverbMix),
      lfoFrequency |-> Param(params.vibratoSpeed),
      lfoGain |-> Param(params.vibratoDepth) ]

\* start() from "this.currentDay = day" on: the pads, playMelody (whose first
\* playNote(0) runs at once and leaves a timer for note 1)
startBody(s, day) ==
    LET params == getSoundParams(day)
        s1 == [s EXCEPT !.currentDay = day, !.isPlaying = TRUE]
    IN  IF s1.masterGain = <<>> \/ ~s1.reverbNode
        THEN Throw(s1, "TypeError")   \* gain.connect(null), before any push
        ELSE Done([s1 EXCEPT
                 !.oscillators = @ \o [i \in 1..Len(padFrequencies) |->
                                          padVoice(padFrequencies[i], params)],
                 !.timers = Append(@, [next |-> 1, day |-> day])])

\* the body of updateDay's oscillators.forEach for one voice, were
\* this.baseFrequencies an array
updateVoice(v, params) ==
    [v EXCEPT
       !.filterFrequency = linearRampToValueAtTime(@, params.filterFrequency, 1000),
       !.filterQ = linearRampToValueAtTime(@, params.filterQ, 1000),
       !.gain = linearRampToValueAtTime(@, (15 * params.dryGain) \div Len(baseFrequencies), 1000),
       !.reverbGain = linearRampToValueAtTime(@, 10 * params.reverbMix, 1000),
       !.lfoFrequency = linearRampToValueAtTime(@, 2 * params.vibratoSpeed, 1000),
       !.lfoGain = linearRampToValueAtTime(@, 2 * params.vibratoDepth, 1000)]

\* what the first iteration does before this.baseFrequencies.length throws
updateVoiceUntilThrow(v, params) ==
    [v EXCEPT
       !.filterFrequency = linearRampToValueAtTime(@, params.filterFrequency, 1000),
       !.filterQ = linearRampToValueAtTime(@, params.filterQ, 1000)]

\* the tail of updateDay: noiseNode is always null; this.reverbGain.gain ramp
updateReverb(s, params) ==
    IF s.reverbGain = <<>> THEN Throw(s, "TypeError")
    ELSE Done([s EXCEPT !.reverbGain =
                 <<linearRampToValueAtTime(@[1], params.reverbDecay, 1000)>>])

updateDay(s, day) ==
    IF ~s.isPlaying \/ day = s.currentDay THEN Done(s)
    ELSE
    LET params == getSoundParams(day)
        s1 == [s EXCEPT !.currentDay = day]
    IN  IF s1.oscillators = <<>> THEN updateReverb(s1, params)
        ELSE IF baseFrequencies = NoObject
        THEN Throw([s1 EXCEPT !.oscillators[1] = updateVoiceUntilThrow(@, params)],
                   "TypeError")
        ELSE updateReverb([s1 EXCEPT !.oscillators =
                             [i \in 1..Len(@) |-> updateVoice(@[i], params)]],
                          params)

\* start(day) up to its await: the result, or the call parked on resume()
start(s, day) ==
    IF s.isPlaying THEN updateDay(s, day)
    ELSE IF s.audioContext = "null" THEN Done(s)
    ELSE IF s.audioContext = "suspended"
    THEN Done([s EXCEPT !.awaiting = Append(@, [who |-> "start", day |-> day])])
    ELSE startBody(s, day)

\* stop() that keeps its list of voices
stop_keepVoices(s) ==
    IF ~s.isPlaying THEN s ELSE [s EXCEPT !.isPlaying = FALSE]

\* stop(): what it schedules on the voices it lets go of is kept in faded
\* (the gain ramp to 0 and osc.stop / lfo.stop, 2000 ms after the call)
stop(s) ==
    IF ~s.isPlaying THEN s
    ELSE [s EXCEPT
            !.faded = [i \in 1..Len(s.oscillators) |->
                         [ baseFreq |-> s.oscillators[i].baseFreq,
                           gain |-> linearRampToValueAtTime(
                                        s.oscillators[i].gain, 0, 2000),
                           stopAt |-> <<2000>> ]],
            !.oscillators = <<>>,
            !.isPlaying = FALSE]

toggle(s, day) == IF s.isPlaying THEN Done(stop(s)) ELSE start(s, day)

\* JavaScript numbers as far as setVolume tells them apart: a finite value
\* (in 1/100), NaN, and the two infinities
Num(n) == [kind |-> "num", n |-> n]
NaN == [kind |-> "nan", n |-> 0]
Infinity == [kind |-> "inf", n |-> 1]
NegInfinity == [kind |-> "inf", n |-> -1]

\* a < b for numbers other than NaN
Less(a, b) ==
    IF a.kind = "inf" THEN a.n < 0 /\ b # a
    ELSE IF b.kind = "inf" THEN b.n > 0
    ELSE a.n < b.n

\* Math.min / Math.max: NaN if either argument is NaN
MathMin(a, b) == IF a = NaN \/ b = NaN THEN NaN ELSE IF Less(a, b) THEN a ELSE b
MathMax(a, b) == IF a = NaN \/ b = NaN THEN NaN ELSE IF Less(a, b) THEN b ELSE a

\* setVolume without the clamp
setVolume_noClamp(s, volume) ==
    IF s.masterGain = <<>> THEN Done(s)
    ELSE IF volume.kind # "num" THEN Throw(s, "TypeError")
    ELSE Done([s EXCEPT !.masterGain = <<volume.n>>])

\* setVolume(volume): AudioParam.value is a float attribute, assigning it a
\* value that is not finite throws a TypeError
setVolume(s, volume) ==
    IF s.masterGain = <<>> THEN Done(s)
    ELSE LET v == MathMax(Num(0), MathMin(Num(100), volume))
         IN  IF v.kind # "num" THEN Throw(s, "TypeError")
             ELSE Done([s EXCEPT !.masterGain = <<v.n>>])

\* playNote's noteDuration * 1000, the delay of its setTimeout, for the note
\* of index noteIndex built from the parameters of day: note.duration *
\* params.playbackRate, in 1/270 ms
noteDuration(noteIndex, day) ==
    (melodyNotes[noteIndex + 1].duration \div 500)
        * (getSoundParams(day).playbackRate \div 200)

\* ran: the call got past its early returns
SndOp(op, day, ran, thrown) == [op |-> op, day |-> day, ran |-> ran, thrown |-> thrown]

(***************************************************************************)
(* Initial states                                                          *)
(***************************************************************************)
\* fpsInterval = 1000/60 ms; wall time is in units of 1/6 ms
FrameInterval == 100
\* the longest the model lets a loop go without rendering
MaxElapsed == 250
\* the time from one display-frame callback to the next: 120, 60 and 40 Hz
Arrivals == {50, 100, 150}

WallIdle == [since |-> 0, elapsed |-> 0]

\* the page before it is opened for the first time: localStorage holds no
\* dementiaMaxDay (getItem gives null, here <<>>)
UiIdle ==
    [open |-> FALSE, selectedDay |-> 0, dementiaMaxDay |-> <<>>,
     soundAutoStarted |-> FALSE]

(***************************************************************************)
(* The reference pipeline (shader/main.js)                                 *)
(***************************************************************************)
Pass(program, target, inputs) ==
    [program |-> program, target |-> target, inputs |-> inputs]

\* step() displacing the working field in place
refStep_inPlace(r) ==
    [r EXCEPT !.draws = << Pass("map", "map", {"source", "depth", "image"}),
                           Pass("displace", "image", {"source", "image", "map"}),
                           Pass("blit", "screen", {"image"}) >>,
              !.time = @ + 1]

\* step(): map, displace, copy-back, present; time += 1/60
refStep(r) ==
    [r EXCEPT !.draws = << Pass("map", "map", {"source", "depth", "image"}),
                           Pass("displace", "displace", {"source", "image", "map"}),
                           Pass("blit", "image", {"displace"}),
                           Pass("blit", "screen", {"image"}) >>,
              !.time = @ + 1]

\* initialize(): time = 0; source, depth and image are filled
refInitialize(r) ==
    [r EXCEPT !.draws = << Pass("blit", "source", {"sourceTex"}),
                           Pass("blit", "depth", {"depthTex"}),
                           Pass("blit", "image", {"source"}) >>,
              !.time = 0]

\* the globals after the script ran: then = performance.now(), time = 0,
\* state.play = true, the two textures loading.  sinceThen is now - then;
\* op, elapsed and rendered tell what the last handler did.
RefIdle ==
    [loaded |-> "pending", running |-> FALSE, play |-> TRUE, sinceThen |-> 0,
     time |-> 0, draws |-> <<>>, op |-> "new", elapsed |-> 0, rendered |-> FALSE]

NoParams == [k \in {} |-> 0]

CurveIdle ==
    [d |-> 1, e |-> 1, done |-> FALSE, pd |-> NoParams, pe |-> NoParams,
     sd |-> NoParams, se |-> NoParams]

\* the ShaderCalendar constructor, with a context
PipeInit ==
    /\ glContext = "webgl"
    /\ contextLost = FALSE
    /\ time = 0
    /\ frames = 0
    /\ animationId = 0
    /\ loops = <<>>
    /\ currentDay = 1
    /\ currentImage = 0
    /\ lastImageSrc = 0
    /\ sourceTexture = NoObject
    /\ fbos = [source |-> NoObject, image |-> NoObject, map |-> NoObject,
               displace |-> NoObject]
    /\ screen = Blank
    /\ loads = {}
    /\ micro = <<>>
    /\ draws = <<>>
    /\ lastOp = Op("new", 0, "none")

SoundInit ==
    /\ snd = NewSound
    /\ sndOp = SndOp("new", 0, FALSE, "none")

Init ==
    /\ curve = CurveIdle
    /\ shade = ShadeIdle
    /\ ref = RefIdle
    /\ wall = WallIdle
    /\ ui = UiIdle
    /\ PipeInit
    /\ SoundInit

(***************************************************************************)
(* ShaderCalendar and displayImage: the operations                         *)
(***************************************************************************)
\* loadImage taking the day over before the image has decoded
LoadImageCall_eagerDay(src, day, via) ==
    /\ micro = <<>>
    /\ Cardinality(loads) < MaxLoads
    /\ loads' = loads \cup {[src |-> src, day |-> day, via |-> via]}
    /\ currentDay' = day
    /\ lastOp' = Op(via, 0, "pending")
    /\ draws' = <<>>
    /\ UNCHANGED <<contextLost, time, frames, animationId, loops,
                   currentImage, lastImageSrc, sourceTexture, fbos, screen,
                   micro, snd, sndOp, glContext, evalVars>>

\* loadImage(src, day) up to "img.src = src": the pipeline is not touched
LoadImageCall(src, day, via) ==
    /\ micro = <<>>
    /\ Cardinality(loads) < MaxLoads
    /\ loads' = loads \cup {[src |-> src, day |-> day, via |-> via]}
    /\ lastOp' = Op(via, 0, "pending")
    /\ draws' = <<>>
    /\ UNCHANGED <<contextLost, time, frames, animationId, loops, currentDay,
                   currentImage, lastImageSrc, sourceTexture, fbos, screen,
                   micro, snd, sndOp, glContext, evalVars>>

\* a caller of the class: shaderCalendar.loadImage(src, day)
LoadImage(src, day) == LoadImageCall(src, day, "loadImage")

\* displayImage(day) up to its await: loadImage(`memory_01/${day}.jpg`, day)
DisplayImage(day) == LoadImageCall(day, day, "displayImage")

\* img.onload of a load in flight, ending in resolve()
ImageLoaded(ld, nullOnLost) ==
    /\ micro = <<>>
    /\ ld \in loads
    /\ (ld.via = "displayImage" /\ animationId = 0) => Len(loops) < MaxLoops
    /\ LET dayChanged == currentDay # ld.day
           g == IF Truthy(sourceTexture) /\ ld.src = lastImageSrc /\ dayChanged
                THEN initialize(GL)
                ELSE initialize(createTexture(GL, ld.src, nullOnLost))
       IN  /\ currentDay' = ld.day
           /\ currentImage' = ld.src
           /\ lastImageSrc' = ld.src
           /\ Assign(g)
           /\ micro' = IF ld.via = "displayImage" THEN <<ld.day>> ELSE <<>>
           /\ lastOp' = Op("onload", 0, "resolved")
    /\ loads' = loads \ {ld}
    /\ UNCHANGED <<snd, sndOp, glContext, evalVars>>

\* img.onerror of a load in flight: reject; displayImage logs and rethrows
ImageFailed(ld) ==
    /\ micro = <<>>
    /\ ld \in loads
    /\ loads' = loads \ {ld}
    /\ lastOp' = Op("onerror", 0, "rejected")
    /\ draws' = <<>>
    /\ UNCHANGED <<contextLost, time, frames, animationId, loops, currentDay,
                   currentImage, lastImageSrc, sourceTexture, fbos, screen,
                   micro, snd, sndOp, glContext, evalVars>>

\* displayImage(day) after its await resolved: start the animation if none
\* is recorded, then update the sound if it plays (a throw is caught, logged
\* and rethrown to the caller)
DisplayImageResume ==
    /\ micro # <<>>
    /\ LET day == Head(micro)
           g == IF animationId = 0 THEN startAnimation(GL, currentDay) ELSE GL
           u == IF snd.isPlaying THEN updateDay(snd, day) ELSE Done(snd)
       IN  /\ Assign(g)
           /\ snd' = u.s
           /\ sndOp' = IF snd.isPlaying
                       THEN SndOp("updateDay", day, day # snd.currentDay, u.thrown)
                       ELSE sndOp
           /\ lastOp' = Op("displayImageResume", 0,
                           IF u.thrown = "none" THEN "resolved" ELSE "rejected")
    /\ micro' = Tail(micro)
    /\ UNCHANGED <<currentDay, currentImage, lastImageSrc, loads, glContext, evalVars>>

\* setDay restarting the feedback loop
SetDay_reset(day) ==
    /\ micro = <<>>
    /\ currentDay' = day
    /\ lastOp' = Op("setDay", day, "none")
    /\ Assign(IF Truthy(sourceTexture) THEN initialize(GL) ELSE GL)
    /\ UNCHANGED <<currentImage, lastImageSrc, loads, micro, snd, sndOp, glContext, evalVars>>

\* setDay(day)
SetDay(day) ==
    /\ micro = <<>>
    /\ currentDay' = day
    /\ lastOp' = Op("setDay", day, "none")
    /\ draws' = <<>>
    /\ UNCHANGED <<contextLost, time, frames, animationId, loops, currentImage,
                   lastImageSrc, sourceTexture, fbos, screen, loads, micro,
                   snd, sndOp, glContext, evalVars>>

\* a display frame: the pending animate callbacks run
AnimateCallbacks ==
    /\ micro = <<>>
    /\ loops # <<>>
    /\ time + Len(loops) <= MaxFrames
    /\ Assign(animate(GL, currentDay, loops))
    /\ lastOp' = Op("animate", 0, "none")
    /\ UNCHANGED <<currentDay, currentImage, lastImageSrc, loads, micro,
                   snd, sndOp, glContext>>

\* the display frame, wall time not observed
AnimationFrame ==
    /\ AnimateCallbacks
    /\ UNCHANGED evalVars

\* the display frame arriving dt after the one before: animate() reads no
\* clock.  wall keeps the time from the last callback that rendered to this
\* one (elapsed), and from the last that rendered to now (since).
AnimationFrameAt(dt) ==
    /\ wall.since + dt <= MaxElapsed
    /\ AnimateCallbacks
    /\ wall' = [elapsed |-> wall.since + dt,
                since |-> IF time' # time THEN 0 ELSE wall.since + dt]
    /\ UNCHANGED <<curve, shade, ref, ui>>

\* the context is lost (every GL object loses its contents) and the
\* webglcontextlost listener runs: stopAnimation()
ContextLost ==
    /\ micro = <<>>
    /\ ~contextLost
    /\ LET g == [GL EXCEPT
                   !.lost = TRUE,
                   !.sourceTexture = IF Truthy(@) THEN LostContents ELSE @,
                   !.fbos = [k \in DOMAIN @ |->
                               IF Truthy(@[k]) THEN LostContents ELSE @[k]],
                   !.screen = LostContents]
       IN  Assign(stopAnimation(g))
    /\ lastOp' = Op("webglcontextlost", 0, "none")
    /\ UNCHANGED <<currentDay, currentImage, lastImageSrc, loads, micro,
                   snd, sndOp, glContext, evalVars>>

\* the restore listener without its initialize()
ContextRestored_noInitialize ==
    /\ micro = <<>>
    /\ contextLost
    /\ currentImage # 0 => Len(loops) < MaxLoops
    /\ LET g0 == [GL EXCEPT
                    !.lost = FALSE,
                    !.screen = Blank,
                    !.fbos = [k \in DOMAIN @ |-> NoObject]]
           g == IF currentImage # 0
                THEN startAnimation(createTexture(g0, currentImage, FALSE),
                                    currentDay)
                ELSE g0
       IN  Assign(g)
    /\ lastOp' = Op("webglcontextrestored", 0, "none")
    /\ UNCHANGED <<currentDay, currentImage, lastImageSrc, loads, micro,
                   snd, sndOp, glContext, evalVars>>

\* the context is back and the webglcontextrestored listener runs
ContextRestored ==
    /\ micro = <<>>
    /\ contextLost
    /\ currentImage # 0 => Len(loops) < MaxLoops
    /\ LET g0 == [GL EXCEPT
                    !.lost = FALSE,
                    !.screen = Blank,
                    !.fbos = [k \in DOMAIN @ |-> NoObject]]   \* setupFramebuffers
           g == IF currentImage # 0
                THEN startAnimation(
                         initialize(createTexture(g0, currentImage, FALSE)),
                         currentDay)
                ELSE g0
       IN  Assign(g)
    /\ lastOp' = Op("webglcontextrestored", 0, "none")
    /\ UNCHANGED <<currentDay, currentImage, lastImageSrc, loads, micro,
                   snd, sndOp, glContext, evalVars>>

Next ==
    \/ \E src \in Srcs, day \in NavDays : LoadImage(src, day)
    \/ \E day \in NavDays : DisplayImage(day)
    \/ \E ld \in loads, nullOnLost \in BOOLEAN : ImageLoaded(ld, nullOnLost)
    \/ \E ld \in loads : ImageFailed(ld)
    \/ DisplayImageResume
    \/ \E day \in NavDays : SetDay(day)
    \/ AnimationFrame
    \/ ContextLost
    \/ ContextRestored

Spec == Init /\ [][Next]_vars

(***************************************************************************)
(* ShaderCalendar constructed on a canvas that gives no WebGL context      *)
(***************************************************************************)
\* the constructor logs 'WebGL not supported' and returns: this.gl is null
\* and no other field is assigned (0 and NoObject stand for undefined)
NoGLInit ==
    /\ curve = CurveIdle
    /\ shade = ShadeIdle
    /\ ref = RefIdle
    /\ wall = WallIdle
    /\ ui = UiIdle
    /\ glContext = "none"
    /\ contextLost = FALSE
    /\ time = 0
    /\ frames = 0
    /\ animationId = 0
    /\ loops = <<>>
    /\ currentDay = 0
    /\ currentImage = 0
    /\ lastImageSrc = 0
    /\ sourceTexture = NoObject
    /\ fbos = [source |-> NoObject, image |-> NoObject, map |-> NoObject,
               displace |-> NoObject]
    /\ screen = Blank
    /\ loads = {}
    /\ micro = <<>>
    /\ draws = <<>>
    /\ lastOp = Op("new", 0, "none")
    /\ SoundInit

\* img.onload with this.gl null: the day and the image are assigned, then
\* createTexture throws at gl.createTexture(); resolve() is never reached,
\* so the promise stays pending and displayImage never continues
NoGLImageLoaded(ld) ==
    /\ glContext = "none"
    /\ ld \in loads
    /\ loads' = loads \ {ld}
    /\ currentDay' = ld.day
    /\ currentImage' = ld.src
    /\ lastOp' = Op("onload", 0, "TypeError")
    /\ draws' = <<>>
    /\ UNCHANGED <<glContext, contextLost, time, frames, animationId, loops,
                   lastImageSrc, sourceTexture, fbos, screen, micro,
                   snd, sndOp, evalVars>>

\* a caller of the class: shaderCalendar.startAnimation()
StartAnimation ==
    /\ micro = <<>>
    /\ Len(loops) < MaxLoops
    /\ Truthy(sourceTexture) => time < MaxFrames
    /\ Assign(startAnimation(GL, currentDay))
    /\ lastOp' = Op("startAnimation", 0, "none")
    /\ UNCHANGED <<glContext, currentDay, currentImage, lastImageSrc, loads,
                   micro, snd, sndOp, evalVars>>

NoGLNext ==
    \/ \E src \in Srcs, day \in NavDays : LoadImage(src, day)
    \/ \E day \in NavDays : DisplayImage(day)
    \/ \E ld \in loads : NoGLImageLoaded(ld)
    \/ \E ld \in loads : ImageFailed(ld)
    \/ \E day \in NavDays : SetDay(day)
    \/ StartAnimation
    \/ AnimationFrame

SpecNoGL == NoGLInit /\ [][NoGLNext]_vars

(***************************************************************************)
(* The ShaderCalendar driven through its methods by any caller             *)
(***************************************************************************)
\* a caller of the class: shaderCalendar.stopAnimation()
StopAnimation ==
    /\ micro = <<>>
    /\ Assign(stopAnimation(GL))
    /\ lastOp' = Op("stopAnimation", 0, "none")
    /\ UNCHANGED <<glContext, currentDay, currentImage, lastImageSrc, loads,
                   micro, snd, sndOp, evalVars>>

ApiNext ==
    \/ \E src \in Srcs, day \in NavDays : LoadImage(src, day)
    \/ \E ld \in loads, nullOnLost \in BOOLEAN : ImageLoaded(ld, nullOnLost)
    \/ \E ld \in loads : ImageFailed(ld)
    \/ \E day \in NavDays : SetDay(day)
    \/ StartAnimation
    \/ StopAnimation
    \/ AnimationFrame

SpecApi == Init /\ [][ApiNext]_vars

(***************************************************************************)
(* The two render loops against the wall clock                             *)
(***************************************************************************)
\* Promise.all(...).then: initState(state) (which ends in initialize()) and
\* the first requestAnimationFrame(update)
RefLoaded ==
    /\ ref.loaded = "pending"
    /\ ref' = [refInitialize(ref) EXCEPT !.loaded = "ok", !.running = TRUE,
                                         !.op = "loaded", !.rendered = FALSE]
    /\ UNCHANGED <<pipeVars, sndVars, ui, curve, shade, wall>>

\* Promise.all(...).catch: the error is logged, no loop starts
RefLoadFailed ==
    /\ ref.loaded = "pending"
    /\ ref' = [ref EXCEPT !.loaded = "failed", !.op = "failed", !.draws = <<>>,
                          !.rendered = FALSE]
    /\ UNCHANGED <<pipeVars, sndVars, ui, curve, shade, wall>>

\* keydown 'p'
RefKeyPlay ==
    /\ ref' = [ref EXCEPT !.play = ~@, !.op = "keydown", !.draws = <<>>,
                          !.rendered = FALSE]
    /\ UNCHANGED <<pipeVars, sndVars, ui, curve, shade, wall>>

\* keydown 'f', '=', '-', a resize in fill mode, an uploaded image: each
\* ends in initialize()
RefInitialize ==
    /\ ref' = [refInitialize(ref) EXCEPT !.op = "initialize", !.rendered = FALSE]
    /\ UNCHANGED <<pipeVars, sndVars, ui, curve, shade, wall>>

\* update(), dt after the callback (or the script start) before it.  The
\* download branch changes none of the state kept here.
RefUpdate(dt) ==
    /\ ref.running
    /\ ref.sinceThen + dt <= MaxElapsed
    /\ LET elapsed == ref.sinceThen + dt
           render_this == elapsed > FrameInterval /\ ref.play
           r == [ref EXCEPT !.op = "update", !.elapsed = elapsed,
                            !.rendered = render_this]
       IN  /\ render_this => ref.time < MaxFrames
           /\ ref' = IF render_this
                     THEN refStep([r EXCEPT !.sinceThen = elapsed % FrameInterval])
                     ELSE [r EXCEPT !.sinceThen = elapsed, !.draws = <<>>]
    /\ UNCHANGED <<pipeVars, sndVars, ui, curve, shade, wall>>

PaceNext ==
    \/ \E day \in NavDays : DisplayImage(day)
    \/ \E ld \in loads, nullOnLost \in BOOLEAN : ImageLoaded(ld, nullOnLost)
    \/ \E ld \in loads : ImageFailed(ld)
    \/ DisplayImageResume
    \/ \E dt \in Arrivals : AnimationFrameAt(dt)
    \/ RefLoaded
    \/ RefLoadFailed
    \/ RefKeyPlay
    \/ RefInitialize
    \/ \E dt \in Arrivals : RefUpdate(dt)

SpecPace == Init /\ [][PaceNext]_vars

(***************************************************************************)
(* The curves on their own: pick two days, evaluate both functions         *)
(***************************************************************************)
CurveInit ==
    /\ curve \in {[CurveIdle EXCEPT !.d = d, !.e = e] : d \in AllDays, e \in AllDays}
    /\ shade = ShadeIdle
    /\ ref = RefIdle
    /\ wall = WallIdle
    /\ ui = UiIdle
    /\ PipeInit
    /\ SoundInit

Evaluate ==
    /\ ~curve.done
    /\ curve' = [curve EXCEPT !.done = TRUE,
                              !.pd = getParams(curve.d),
                              !.pe = getParams(curve.e),
                              !.sd = getSoundParams(curve.d),
                              !.se = getSoundParams(curve.e)]
    /\ UNCHANGED <<pipeVars, sndVars, ui, shade, refVars>>

Pick(d, e) ==
    /\ curve.done
    /\ curve' = [CurveIdle EXCEPT !.d = d, !.e = e]
    /\ UNCHANGED <<pipeVars, sndVars, ui, shade, refVars>>

CurveNext ==
    \/ Evaluate
    \/ \E d \in AllDays, e \in AllDays : Pick(d, e)

SpecCurve == CurveInit /\ [][CurveNext]_vars

(***************************************************************************)
(* The shaders on their own: draw the inputs, run one pass on one pixel    *)
(***************************************************************************)
ShadeInit ==
    /\ curve = CurveIdle
    /\ shade \in BlurInputs \cup DisplaceInputs
    /\ ref = RefIdle
    /\ wall = WallIdle
    /\ ui = UiIdle
    /\ PipeInit
    /\ SoundInit

\* the blur pass computes the pixel at shade.uv
BlurPass ==
    /\ shade.pass = "blur"
    /\ ~shade.done
    /\ shade' = [shade EXCEPT
                   !.done = TRUE,
                   !.out = blur(Pattern(shade.tex), shade.uv, shade.size)]
    /\ UNCHANGED <<pipeVars, sndVars, ui, curve, refVars>>

\* the displace pass computes the pixel at shade.uv
DisplacePass ==
    /\ shade.pass = "displace"
    /\ ~shade.done
    /\ shade' = [shade EXCEPT
                   !.done = TRUE,
                   !.out = displace(Pattern(shade.source), Pattern(shade.image),
                                    [c \in DOMAIN shade.map |-> Pattern(shade.map[c])],
                                    shade.uv, Q(shade.hard_weight, 1),
                                    Q(shade.soft_weight, 1), shade.size)]
    /\ UNCHANGED <<pipeVars, sndVars, ui, curve, refVars>>

ShadeNext ==
    \/ BlurPass
    \/ DisplacePass

SpecShade == ShadeInit /\ [][ShadeNext]_vars

(***************************************************************************)
(* DementiaSound: the operations                                           *)
(***************************************************************************)
\* the bounds on the timers and the parked calls leave room for start()
CanStart(s) ==
    \/ s.isPlaying
    \/ s.audioContext = "null"
    \/ s.audioContext = "suspended" /\ Len(s.awaiting) < MaxAwaiting
    \/ s.audioContext = "running" /\ Len(s.timers) < MaxTimers

\* init(): the constructor throws (caught), or the context starts suspended
\* (init parks on resume()), or it starts running and init completes, or it
\* starts running and createReverb throws at createConvolver (caught)
init(s, outcome) ==
    IF s.audioContext # "null" THEN s
    ELSE IF outcome = "throws" THEN s
    ELSE IF outcome = "suspended"
    THEN [s EXCEPT !.audioContext = "suspended",
                   !.awaiting = Append(@, [who |-> "init", day |-> 0])]
    ELSE IF outcome = "reverbThrows"
    THEN [s EXCEPT !.audioContext = "running", !.masterGain = <<20>>]
    ELSE finishInit([s EXCEPT !.audioContext = "running"])

SndInit(outcome) ==
    /\ outcome = "suspended" => Len(snd.awaiting) < MaxAwaiting
    /\ snd' = init(snd, outcome)
    /\ sndOp' = SndOp("init", 0, snd.audioContext = "null", "none")
    /\ UNCHANGED <<pipeVars, evalVars>>

\* the oldest pending audioContext.resume() settles and its caller goes on
SndResume(ok) ==
    /\ snd.awaiting # <<>>
    /\ LET w == Head(snd.awaiting)
           s0 == [snd EXCEPT !.awaiting = Tail(@)]
           s1 == [s0 EXCEPT !.audioContext = "running"]
           r == IF ~ok THEN (IF w.who = "init" THEN Done(s0) ELSE Throw(s0, "Rejected"))
                ELSE IF w.who = "init" THEN Done(finishInit(s1))
                ELSE startBody(s1, w.day)
       IN  /\ (ok /\ w.who = "start") => Len(snd.timers) < MaxTimers
           /\ snd' = r.s
           /\ sndOp' = SndOp(IF w.who = "init" THEN "initResume" ELSE "startResume",
                             w.day, ok, r.thrown)
    /\ UNCHANGED <<pipeVars, evalVars>>

SndStart(day) ==
    /\ CanStart(snd)
    /\ LET r == start(snd, day)
       IN  /\ snd' = r.s
           /\ sndOp' = SndOp("start", day,
                             IF snd.isPlaying THEN day # snd.currentDay
                             ELSE snd.audioContext # "null",
                             r.thrown)
    /\ UNCHANGED <<pipeVars, evalVars>>

SndToggle(day) ==
    /\ CanStart(snd)
    /\ LET r == toggle(snd, day)
       IN  /\ snd' = r.s
           /\ sndOp' = SndOp("toggle", day,
                             snd.isPlaying \/ snd.audioContext # "null", r.thrown)
    /\ UNCHANGED <<pipeVars, evalVars>>

SndStop ==
    /\ snd' = stop(snd)
    /\ sndOp' = SndOp("stop", 0, snd.isPlaying, "none")
    /\ UNCHANGED <<pipeVars, evalVars>>

SndUpdateDay(day) ==
    /\ LET r == updateDay(snd, day)
       IN  /\ snd' = r.s
           /\ sndOp' = SndOp("updateDay", day,
                             snd.isPlaying /\ day # snd.currentDay, r.thrown)
    /\ UNCHANGED <<pipeVars, evalVars>>

\* the volumes setVolume is called with
Volumes == {Num(-50), Num(35), Num(150), NaN, Infinity, NegInfinity}

SndSetVolume(volume) ==
    /\ LET r == setVolume(snd, volume)
       IN  /\ snd' = r.s
           /\ sndOp' = [op |-> "setVolume", day |-> 0, volume |-> volume,
                        ran |-> snd.masterGain # <<>>, thrown |-> r.thrown]
    /\ UNCHANGED <<pipeVars, evalVars>>

\* a setTimeout(() => playNote(next)) fires: playNote returns if the sound
\* is off, else makes the note and leaves a timer for the one after
\* a note timer that ends the chain after the last note of the pattern
SndNoteTimer_once(i) ==
    /\ i \in 1..Len(snd.timers)
    /\ snd' = IF ~snd.isPlaying \/ snd.timers[i].next = Len(melodyNotes) - 1
              THEN [snd EXCEPT !.timers = RemoveAt(@, i)]
              ELSE [snd EXCEPT !.timers[i].next = (@ + 1) % Len(melodyNotes)]
    /\ sndOp' = [op |-> "playNote", day |-> snd.timers[i].day,
                 ran |-> snd.isPlaying, thrown |-> "none",
                 note |-> snd.timers[i].next,
                 delay |-> IF snd.isPlaying
                           THEN noteDuration(snd.timers[i].next, snd.timers[i].day)
                           ELSE 0]
    /\ UNCHANGED <<pipeVars, evalVars>>

SndNoteTimer(i) ==
    /\ i \in 1..Len(snd.timers)
    /\ snd' = IF ~snd.isPlaying
              THEN [snd EXCEPT !.timers = RemoveAt(@, i)]
              ELSE [snd EXCEPT !.timers[i].next = (@ + 1) % Len(melodyNotes)]
    /\ sndOp' = [op |-> "playNote", day |-> snd.timers[i].day,
                 ran |-> snd.isPlaying, thrown |-> "none",
                 note |-> snd.timers[i].next,
                 delay |-> IF snd.isPlaying
                           THEN noteDuration(snd.timers[i].next, snd.timers[i].day)
                           ELSE 0]
    /\ UNCHANGED <<pipeVars, evalVars>>

SoundNext ==
    \/ \E outcome \in {"throws", "suspended", "running", "reverbThrows"} :
          SndInit(outcome)
    \/ \E ok \in BOOLEAN : SndResume(ok)
    \/ \E day \in NavDays : SndStart(day)
    \/ \E day \in NavDays : SndToggle(day)
    \/ SndStop
    \/ \E day \in NavDays : SndUpdateDay(day)
    \/ \E i \in 1..MaxTimers : SndNoteTimer(i)

SpecSound == Init /\ [][SoundNext]_vars

\* the engine on a context that is created running, its voices and its
\* melody: init, start, stop and the note timers
MelodyNext ==
    \/ \E outcome \in {"throws", "running", "reverbThrows"} : SndInit(outcome)
    \/ \E day \in NavDays : SndStart(day)
    \/ SndStop
    \/ \E i \in 1..MaxTimers : SndNoteTimer(i)

SpecMelody == Init /\ [][MelodyNext]_vars

\* the engine and its volume control: the operations that create, keep or
\* release the master gain, and setVolume
VolumeNext ==
    \/ \E outcome \in {"throws", "suspended", "running", "reverbThrows"} : SndInit(outcome)
    \/ \E ok \in BOOLEAN : SndResume(ok)
    \/ \E day \in NavDays : SndStart(day)
    \/ SndStop
    \/ \E volume \in Volumes : SndSetVolume(volume)

SpecVolume == Init /\ [][VolumeNext]_vars

(***************************************************************************)
(* The page (script.js): init, the navigation, the sound keys              *)
(*                                                                         *)
(* localStorage holds strings: dementiaMaxDay is the decimal digits of a   *)
(* day, written by toString and read back by parseInt.                     *)
(***************************************************************************)
\* image loads the page may have in flight at once
MaxPending == 2
\* the days of the month on which the page is opened, and the lengths of
\* that month
PageDays == {29, 30, 31}
MonthLengths == {30, 31}
InitOutcomes == {"throws", "suspended", "running", "reverbThrows"}

\* Number.prototype.toString for a day: its decimal digits
toString(n) == IF n < 10 THEN <<n>> ELSE <<n \div 10, n % 10>>

\* parseInt of a string of digits
RECURSIVE parseInt(_)
parseInt(str) ==
    IF str = <<>> THEN 0
    ELSE 10 * parseInt(SubSeq(str, 1, Len(str) - 1)) + str[Len(str)]

\* savedMaxDay ? parseInt(savedMaxDay) : 0
maxDayReached(u) == IF u.dementiaMaxDay = <<>> THEN 0 ELSE parseInt(u.dementiaMaxDay)

\* init() up to initShaderCalendar: selectedDay = max(currentDay, maxDayReached),
\* capped at daysInMonth, and stored
pageInit(u, today, daysInMonth) ==
    LET m == IF today > maxDayReached(u) THEN today ELSE maxDayReached(u)
        capped == IF m > daysInMonth THEN daysInMonth ELSE m
    IN  [open |-> TRUE, selectedDay |-> capped, dementiaMaxDay |-> toString(capped),
         soundAutoStarted |-> FALSE]

\* updateUI() up to displayImage: store selectedDay if above the stored day
updateUI(u) ==
    IF u.selectedDay > maxDayReached(u)
    THEN [u EXCEPT !.dementiaMaxDay = toString(u.selectedDay)]
    ELSE u

\* displayImage(day) called by updateUI, up to its await
PageDisplayImage(day) ==
    /\ loads' = loads \cup {[src |-> day, day |-> day, via |-> "displayImage"]}
    /\ lastOp' = Op("displayImage", 0, "pending")
    /\ draws' = <<>>

\* the page is opened (or reloaded) on day `today` of a month of daysInMonth
\* days: the script's globals are fresh, localStorage is what was left;
\* init() constructs the ShaderCalendar, calls soundSystem.init() without
\* awaiting it, and runs updateUI() up to the await in displayImage
PageLoad(today, daysInMonth, outcome) ==
    /\ today <= daysInMonth
    /\ ui' = updateUI(pageInit(ui, today, daysInMonth))
    /\ contextLost' = FALSE
    /\ time' = 0
    /\ frames' = 0
    /\ animationId' = 0
    /\ loops' = <<>>
    /\ currentDay' = 1
    /\ currentImage' = 0
    /\ lastImageSrc' = 0
    /\ sourceTexture' = NoObject
    /\ fbos' = [source |-> NoObject, image |-> NoObject, map |-> NoObject,
                displace |-> NoObject]
    /\ screen' = Blank
    /\ micro' = <<>>
    /\ loads' = {[src |-> ui'.selectedDay, day |-> ui'.selectedDay,
                  via |-> "displayImage"]}
    /\ lastOp' = Op("displayImage", 0, "pending")
    /\ draws' = <<>>
    /\ snd' = init(NewSound, outcome)
    /\ sndOp' = SndOp("init", 0, TRUE, "none")
    /\ UNCHANGED <<glContext, curve, shade, refVars>>

\* nextBtn click: goToNextDay()
GoToNextDay ==
    /\ ui.open
    /\ micro = <<>>
    /\ Cardinality(loads) < MaxPending
    /\ ui.selectedDay < 31
    /\ ui' = updateUI([ui EXCEPT !.selectedDay = @ + 1])
    /\ PageDisplayImage(ui'.selectedDay)
    /\ UNCHANGED <<contextLost, time, frames, animationId, loops, currentDay,
                   currentImage, lastImageSrc, sourceTexture, fbos, screen,
                   micro, snd, sndOp, glContext, curve, shade, refVars>>

\* datePicker change: goToDate(dateString), for a date of the current month
GoToDate(requestedDay) ==
    /\ ui.open
    /\ micro = <<>>
    /\ Cardinality(loads) < MaxPending
    /\ requestedDay >= maxDayReached(ui)
    /\ requestedDay <= 31
    /\ ui' = updateUI([ui EXCEPT !.selectedDay = requestedDay])
    /\ PageDisplayImage(requestedDay)
    /\ UNCHANGED <<contextLost, time, frames, animationId, loops, currentDay,
                   currentImage, lastImageSrc, sourceTexture, fbos, screen,
                   micro, snd, sndOp, glContext, curve, shade, refVars>>

\* the first click or key other than 's': autoStartSound, up to the await
\* inside start(selectedDay)
AutoStartSound ==
    /\ ui.open
    /\ ~ui.soundAutoStarted
    /\ CanStart(snd)
    /\ ui' = [ui EXCEPT !.soundAutoStarted = TRUE]
    /\ LET r == start(snd, ui.selectedDay)
       IN  /\ snd' = r.s
           /\ sndOp' = SndOp("start", ui.selectedDay,
                             IF snd.isPlaying THEN ui.selectedDay # snd.currentDay
                             ELSE snd.audioContext # "null",
                             r.thrown)
    /\ UNCHANGED <<pipeVars, curve, shade, refVars>>

\* keydown 's': soundSystem.toggle(selectedDay)
KeyS ==
    /\ ui.open
    /\ SndToggle(ui.selectedDay)

\* the page with images that always load: init and the navigation
NavNext ==
    \/ \E today \in PageDays, daysInMonth \in MonthLengths, outcome \in InitOutcomes :
          PageLoad(today, daysInMonth, outcome)
    \/ GoToNextDay
    \/ \E requestedDay \in PageDays : GoToDate(requestedDay)
    \/ \E ld \in loads : ImageLoaded(ld, FALSE)
    \/ DisplayImageResume

SpecNav == Init /\ [][NavNext]_vars

\* the page with its sound and with images that may fail to load
PageNext ==
    \/ NavNext
    \/ \E ld \in loads : ImageFailed(ld)
    \/ \E ok \in BOOLEAN : SndResume(ok)
    \/ AutoStartSound
    \/ KeyS

SpecPage == Init /\ [][PageNext]_vars

(***************************************************************************)
(* Properties                                                              *)
(***************************************************************************)
\* animationId, when set, names the newest pending request
AnimationIdIsNewest ==
    animationId # 0 => (loops # <<>> /\ animationId = loops[Len(loops)])

\* a truthy source texture comes with allocated framebuffers
FbosAllocated ==
    Truthy(sourceTexture) => \A k \in DOMAIN fbos : Truthy(fbos[k])

\* C1: right after the onload handler of a successful loadImage (new image,
\* or same image with another day), before any render runs, the time
\* accumulator is 0 and no render is counted since the reset; with a live
\* context the working field fbos.image equals the source field fbos.source,
\* which holds the loaded image.
C1_LoadResetsAccumulator ==
    lastOp.op = "onload" =>
        /\ time = 0
        /\ frames = 0
        /\ ~contextLost =>
              /\ fbos.image = fbos.source
              /\ fbos.source = ImageTex(currentImage)

\* the same image loaded for another day after frames were rendered: the
\* displace buffer still holds a rendered frame, the working field is reset
C1_Witness ==
    /\ lastOp.op = "onload"
    /\ ~contextLost
    /\ fbos.displace[1] = "displace"
    /\ fbos.image = ImageTex(currentImage)

\* C2: setDay changes the current day and nothing else of the pipeline
\* (working, source and map fields, time accumulator), and a render uses
\* the uniforms of the day that is current when it runs.
C2_SetDayKeepsAccumulator ==
    [][ /\ lastOp'.op = "setDay" =>
              /\ currentDay' = lastOp'.day
              /\ UNCHANGED <<fbos, screen, sourceTexture, time, frames,
                             currentImage, animationId, loops>>
        /\ (lastOp'.op = "animate" /\ ~contextLost' /\ Truthy(sourceTexture')) =>
              /\ fbos'.map[5] = MapUniforms(getParams(currentDay'))
              /\ fbos'.displace[5] = DisplaceUniforms(getParams(currentDay'))
      ]_vars

\* a frame rendered with one day's uniforms on top of a frame rendered with
\* another day's: the day changed in between and the accumulation was kept
C2_Witness ==
    /\ lastOp.op = "animate"
    /\ ~contextLost
    /\ fbos.displace[1] = "displace"
    /\ fbos.displace[3][1] = "displace"
    /\ fbos.displace[3][5] # fbos.displace[5]

\* C3: a loadImage call, and a decode failure, leave the pipeline state
\* (day, image, textures, fields, time, loop) as it is, the failure being
\* rejected to the caller; while a load is in flight a rendered frame is
\* made from the previous image with the previous day's uniforms.
C3_LoadLeavesNoPartialState ==
    [][ /\ lastOp'.op \in {"loadImage", "displayImage", "onerror"} =>
              UNCHANGED <<currentDay, currentImage, lastImageSrc, sourceTexture,
                          fbos, screen, time, frames, animationId, loops>>
        /\ lastOp'.op = "onerror" => lastOp'.result = "rejected"
        /\ (lastOp'.op = "animate" /\ loads # {} /\ ~contextLost
                /\ Truthy(sourceTexture)) =>
              /\ currentDay' = currentDay /\ currentImage' = currentImage
              /\ fbos'.map[2] = ImageTex(currentImage)
              /\ fbos'.map[5] = MapUniforms(getParams(currentDay))
      ]_vars

\* a load fails while an earlier image is on screen and frames have run
C3_Witness ==
    /\ lastOp.op = "onerror"
    /\ lastOp.result = "rejected"
    /\ currentImage # 0
    /\ time > 0
    /\ ~contextLost

\* the draw calls of one render(), the k-th of the step
RenderDrawsInOrder(k) ==
    /\ draws[4 * k + 1] = [program |-> "map", target |-> "map",
                           inputs |-> {"source", "image"}]
    /\ draws[4 * k + 2] = [program |-> "displace", target |-> "displace",
                           inputs |-> {"source", "image", "map"}]
    /\ draws[4 * k + 3] = [program |-> "blit", target |-> "image",
                           inputs |-> {"displace"}]
    /\ draws[4 * k + 4] = [program |-> "blit", target |-> "screen",
                           inputs |-> {"image"}]

\* C4: the time accumulator counts the renders since the last initialize,
\* one step of 1/60 s each; every render of a display frame issues map,
\* displace, copy-back and present in that order, and on a live context the
\* frame's map and displacement both read the working field as it was before
\* the copy-back, the working field becomes the displaced result and the
\* screen shows the working field.
C4_RenderPassOrderAndStep ==
    /\ time = frames
    /\ (lastOp.op = "animate" /\ Truthy(sourceTexture)) =>
          /\ Len(draws) = 4 * Len(loops)
          /\ \A k \in 0..(Len(loops) - 1) : RenderDrawsInOrder(k)
          /\ ~contextLost =>
                /\ fbos.map = MapShader(fbos.source, fbos.displace[3], time - 1,
                                        MapUniforms(getParams(currentDay)))
                /\ fbos.displace = DisplaceShader(fbos.source, fbos.map[3], fbos.map,
                                        DisplaceUniforms(getParams(currentDay)))
                /\ fbos.image = fbos.displace
                /\ screen = fbos.image

\* the second frame since the last initialize, fed by the first one's result
C4_Witness ==
    /\ lastOp.op = "animate"
    /\ ~contextLost
    /\ time = 2
    /\ fbos.displace[1] = "displace"
    /\ fbos.displace[3][1] = "displace"
    /\ screen = fbos.image

\* C5 (as claimed): while the context is lost no animation loop is pending
\* and no step issues the passes of a render.
C5_NoRenderWhileLost ==
    contextLost =>
        /\ loops = <<>>
        /\ animationId = 0
        /\ \A i \in 1..Len(draws) : draws[i].program # "map"

\* C6: after the restore listener, with a retained image the source texture
\* is that image again, the first frame has been rendered from a working
\* field equal to the source field at time 0 and a loop is pending; with no
\* retained image nothing is allocated and no loop is pending.
C6_RestoreReinitializes ==
    lastOp.op = "webglcontextrestored" =>
        /\ ~contextLost
        /\ currentImage # 0 =>
              /\ sourceTexture = ImageTex(currentImage)
              /\ fbos.source = ImageTex(currentImage)
              /\ SubSeq(draws, 1, 2) =
                    << [program |-> "blit", target |-> "source",
                        inputs |-> {"sourceTexture"}],
                       [program |-> "blit", target |-> "image",
                        inputs |-> {"source"}] >>
              /\ fbos.map = MapShader(fbos.source, fbos.source, 0,
                                      MapUniforms(getParams(currentDay)))
              /\ fbos.image = DisplaceShader(fbos.source, fbos.source, fbos.map,
                                      DisplaceUniforms(getParams(currentDay)))
              /\ time = 1
              /\ animationId # 0
              /\ loops # <<>>
        /\ currentImage = 0 =>
              /\ animationId = 0
              /\ loops = <<>>
              /\ \A k \in DOMAIN fbos : fbos[k] = NoObject

\* restored with an image: reinitialized and running
C6_Witness ==
    /\ lastOp.op = "webglcontextrestored"
    /\ currentImage # 0
    /\ fbos.source = ImageTex(currentImage)
    /\ animationId # 0
    /\ time = 1

\* C7: getParams and getSoundParams take the documented values at day 1
\* and at day 31.
C7_CurveEndpoints ==
    curve.done =>
        /\ curve.d = 1 =>
              /\ \A k \in DOMAIN DocVisualDay1 :
                    curve.pd[k] = DocVisualDay1[k] * 27000
              /\ \A k \in DOMAIN DocSoundDay1 :
                    curve.sd[k] = DocSoundDay1[k] * 27000
        /\ curve.d = LastDay =>
              /\ \A k \in DOMAIN DocVisualDay31 :
                    curve.pd[k] = DocVisualDay31[k] * 27000
              /\ \A k \in DOMAIN DocSoundDay31 :
                    curve.sd[k] = DocSoundDay31[k] * 27000

\* both endpoints evaluated
C7_Witness ==
    /\ curve.done
    /\ curve.d = LastDay
    /\ curve.e = 1
    /\ DOMAIN curve.pd = DOMAIN DocVisualDay31
    /\ curve.pd.image_blur = 32000 * 27000
    /\ curve.pe.image_blur = 100 * 27000
    /\ curve.sd.filterFrequency = 4000 * 27000
    /\ curve.se.reverbMix = 100 * 27000

\* p rises (or stays) from day 1 to day 31
Rising(p1, p31) == p1 <= p31

\* C8: between two days d < e every parameter moves, if at all, in the
\* direction from its day-1 value to its day-31 value.
C8_CurveMonotonic ==
    (curve.done /\ curve.d < curve.e) =>
        /\ \A k \in DOMAIN curve.pd :
              IF Rising(getParams(1)[k], getParams(LastDay)[k])
              THEN curve.pd[k] <= curve.pe[k]
              ELSE curve.pd[k] >= curve.pe[k]
        /\ \A k \in DOMAIN curve.sd :
              IF Rising(getSoundParams(1)[k], getSoundParams(LastDay)[k])
              THEN curve.sd[k] <= curve.se[k]
              ELSE curve.sd[k] >= curve.se[k]

\* two inner days, one parameter of each easing shape strictly moved
C8_Witness ==
    /\ curve.done
    /\ 1 < curve.d /\ curve.d < curve.e /\ curve.e < LastDay
    /\ curve.pd.image_blur < curve.pe.image_blur
    /\ curve.pd.uv_scale < curve.pe.uv_scale
    /\ curve.pd.src_weight > curve.pe.src_weight

Between(lo, x, hi) == lo <= x /\ x <= hi

\* C9: every parameter of every day lies between its day-1 and day-31 values.
C9_CurveNoOvershoot ==
    curve.done =>
        /\ \A k \in DOMAIN curve.pd :
              \/ Between(getParams(1)[k], curve.pd[k], getParams(LastDay)[k])
              \/ Between(getParams(LastDay)[k], curve.pd[k], getParams(1)[k])
        /\ \A k \in DOMAIN curve.sd :
              \/ Between(getSoundParams(1)[k], curve.sd[k], getSoundParams(LastDay)[k])
              \/ Between(getSoundParams(LastDay)[k], curve.sd[k], getSoundParams(1)[k])

\* an inner day, strictly inside for a rising and a falling parameter
C9_Witness ==
    /\ curve.done
    /\ 1 < curve.d /\ curve.d < LastDay
    /\ getParams(1).hard_weight < curve.pd.hard_weight
    /\ curve.pd.hard_weight < getParams(LastDay).hard_weight
    /\ getSoundParams(LastDay).filterFrequency < curve.sd.filterFrequency
    /\ curve.sd.filterFrequency < getSoundParams(1).filterFrequency

\* C10 (as claimed): an updateDay to another day while playing completes
\* without error and leaves on every voice's lowpass filter a ramp to the
\* new day's filterFrequency ending 1 s after the call, whose mid-ramp value
\* lies strictly between the old and the new cutoff.
C10_UpdateDayRampsFilter ==
    (sndOp.op = "updateDay" /\ sndOp.ran) =>
        /\ sndOp.thrown = "none"
        /\ \A i \in 1..Len(snd.oscillators) :
              LET f == snd.oscillators[i].filterFrequency
                  target == getSoundParams(sndOp.day).filterFrequency
              IN  /\ f.ramp = <<target, 1000>>
                  /\ f.value # target =>
                        \/ 2 * f.value < MidRampTimes2(f) /\ MidRampTimes2(f) < 2 * target
                        \/ 2 * target < MidRampTimes2(f) /\ MidRampTimes2(f) < 2 * f.value

\* the engine as init() completes it
Initialized(s) == s.masterGain # <<>> /\ s.reverbNode /\ s.reverbGain # <<>>

\* C11 (as claimed): init() never throws to its caller; while the engine is
\* not initialized the sound is off (isPlaying false, no voices); and a
\* start() whose own resume() succeeded ends without error with the sound
\* on and its pad voices playing.
C11_AudioInitFailureNonFatal ==
    /\ sndOp.op \in {"init", "initResume"} => sndOp.thrown = "none"
    /\ ~Initialized(snd) => (~snd.isPlaying /\ snd.oscillators = <<>>)
    /\ (sndOp.op = "startResume" /\ sndOp.ran) =>
          /\ sndOp.thrown = "none"
          /\ snd.isPlaying
          /\ Len(snd.oscillators) >= Len(padFrequencies)

\* C12: a blur of size 0 (radius 0) returns, for every field and every
\* position, the sample at that position unchanged.
C12_NullBlurIsIdentity ==
    (shade.done /\ shade.pass = "blur" /\ shade.size = 0) =>
        shade.out = texture2D(Pattern(shade.tex), shade.uv)

\* a null blur of a field that is not flat, at a position between texels
C12_Witness ==
    /\ shade.done
    /\ shade.pass = "blur"
    /\ shade.size = 0
    /\ shade.tex = "rampX"
    /\ shade.uv = <<Q(1, 1), Q(3, 4)>>
    /\ shade.out = Half

\* C13: with hard_weight = soft_weight = 0 the displace pass returns the
\* working image at the pixel itself blended with the source by the
\* un-blurred alpha of the map: mix(image(uv), source(uv), 1 - map(uv).w).
C13_ZeroWeightIsMaskBlend ==
    (shade.done /\ shade.pass = "displace"
        /\ shade.hard_weight = 0 /\ shade.soft_weight = 0) =>
        shade.out = mix(texture2D(Pattern(shade.image), shade.uv),
                        texture2D(Pattern(shade.source), shade.uv),
                        QSub(One, texture2D(Pattern(shade.map.w), shade.uv)))

\* zero weights with a map that would displace (x channel off 1/2, blurred)
\* and a mask that varies over the field, giving a true blend
C13_Witness ==
    /\ shade.done
    /\ shade.pass = "displace"
    /\ shade.hard_weight = 0 /\ shade.soft_weight = 0
    /\ shade.size > 0
    /\ shade.map.x = "one"
    /\ shade.map.w = "rampY"
    /\ shade.out # texture2D(Pattern(shade.image), shade.uv)
    /\ shade.out # texture2D(Pattern(shade.source), shade.uv)

\* C14 (as claimed): an object constructed on a canvas without WebGL is
\* never operated on: no loadImage is accepted, no field is assigned by a
\* load or by setDay, and no animation loop is started on it.
C14_NoContextConstructionFatal ==
    glContext = "none" =>
        /\ loads = {}
        /\ currentDay = 0 /\ currentImage = 0
        /\ loops = <<>> /\ animationId = 0

\* v clamped to [0, 1], for v other than NaN, in 1/100
Clamped(v) ==
    IF v.kind = "inf" THEN (IF v.n < 0 THEN 0 ELSE 100)
    ELSE IF v.n < 0 THEN 0 ELSE IF v.n > 100 THEN 100 ELSE v.n

\* C15 (as claimed): a setVolume(v) step, for any number v, ends without
\* error; on an engine without master gain it changes nothing, otherwise it
\* leaves the master gain at v clamped to [0, 1] and nothing else changed.
C15_SetVolumeClampsAnyNumber ==
    [][ sndOp'.op = "setVolume" =>
          /\ sndOp'.thrown = "none"
          /\ IF snd.masterGain = <<>> THEN snd' = snd
             ELSE /\ sndOp'.volume # NaN
                  /\ snd' = [snd EXCEPT !.masterGain = <<Clamped(sndOp'.volume)>>]
      ]_vars

\* C15 (amended): the same for every v other than NaN; setVolume(NaN) on an
\* initialized engine throws a TypeError and changes nothing.  The master
\* gain is always within [0, 1].
C15_SetVolumeClamps ==
    [][ /\ sndOp'.op = "setVolume" =>
              IF snd.masterGain = <<>>
              THEN snd' = snd /\ sndOp'.thrown = "none"
              ELSE IF sndOp'.volume = NaN
              THEN snd' = snd /\ sndOp'.thrown = "TypeError"
              ELSE /\ sndOp'.thrown = "none"
                   /\ snd' = [snd EXCEPT !.masterGain = <<Clamped(sndOp'.volume)>>]
        /\ snd'.masterGain # <<>> =>
              (0 <= snd'.masterGain[1] /\ snd'.masterGain[1] <= 100)
      ]_vars

\* a volume above 1 was set on an initialized engine and came out as 1
C15_Witness ==
    /\ sndOp.op = "setVolume"
    /\ sndOp.ran
    /\ sndOp.volume = Num(150)
    /\ snd.masterGain = <<100>>

\* C16: a frame callback of either render loop renders at most once, and only
\* when more than 1000/60 ms have passed since the last callback that
\* rendered; a callback that comes earlier leaves the time accumulator alone.
C16_FramePacing ==
    [][ /\ ref'.op = "update" /\ ref' # ref =>
              /\ ref'.time \in {ref.time, ref.time + 1}
              /\ ref'.time # ref.time => ref'.elapsed > FrameInterval
        /\ lastOp'.op = "animate" /\ wall' # wall =>
              /\ time' \in {time, time + 1}
              /\ time' # time => wall'.elapsed > FrameInterval
      ]_vars

\* the accumulation starts over: time 0, no frame rendered, and on a live
\* context the working field a copy of the source field of the current image
Restarted ==
    /\ time = 0 /\ frames = 0
    /\ (~contextLost /\ currentImage # 0) =>
           /\ fbos.source = ImageTex(currentImage)
           /\ fbos.image = fbos.source

\* C17 (as claimed): every step that changes the current day or the current
\* image, through loadImage or setDay, leaves the accumulation restarted; a
\* frame rendered at an unchanged day adds to it.
C17_EveryDayChangeRestarts ==
    [][ /\ (currentDay' # currentDay \/ currentImage' # currentImage) => Restarted'
        /\ (lastOp'.op = "animate" /\ Truthy(sourceTexture)) =>
              (time' = time + Len(loops) /\ frames' = frames + Len(loops))
      ]_vars

\* C17 (amended): a loadImage that changes the day or the image leaves the
\* accumulation restarted; setDay changes the day and leaves the time
\* accumulator and every field as they were; a rendered frame adds to the
\* accumulation.
C17_LoadRestartsSetDayKeeps ==
    [][ /\ (currentDay' # currentDay \/ currentImage' # currentImage) =>
              IF lastOp'.op = "setDay"
              THEN /\ currentImage' = currentImage
                   /\ <<time', frames', fbos'>> = <<time, frames, fbos>>
              ELSE Restarted'
        /\ (lastOp'.op = "animate" /\ Truthy(sourceTexture)) =>
              (time' = time + Len(loops) /\ frames' = frames + Len(loops))
      ]_vars

\* a running loop's image was reloaded at another day and the accumulation
\* started over
C17_Witness ==
    /\ lastOp.op = "onload"
    /\ loops # <<>>
    /\ currentDay # currentImage
    /\ ~contextLost
    /\ Restarted

\* C18: the source field changes only in the handlers that run initialize()
\* (an image's onload, the context's restore) and when the context, and with
\* it every field, is lost; a step that only renders (a display frame, the
\* first frame of startAnimation) leaves it as it was.  What the two
\* handlers leave in it on a live context is the current image.
C18_SourceWrittenOnlyByInitialize ==
    [][ /\ fbos'.source # fbos.source =>
              /\ lastOp'.op \in {"onload", "webglcontextrestored", "webglcontextlost"}
              /\ (lastOp'.op = "onload" /\ ~contextLost') =>
                     fbos'.source = ImageTex(currentImage')
              /\ (lastOp'.op = "webglcontextrestored" /\ currentImage' # 0) =>
                     fbos'.source = ImageTex(currentImage')
        /\ (lastOp'.op \in {"animate", "displayImageResume"} /\ frames' > frames) =>
              fbos'.source = fbos.source
      ]_vars

\* two frames were rendered since the last initialize(): the working field
\* moved on, the source field still holds the image
C18_Witness ==
    /\ lastOp.op = "animate"
    /\ frames = MaxFrames
    /\ ~contextLost
    /\ fbos.source = ImageTex(currentImage)
    /\ fbos.image # fbos.source

\* C19: in every draw issued by initialize() and render() of the
\* ShaderCalendar and by initialize() and step() of the reference pipeline,
\* the field written is none of the textures the pass samples.
C19_NoPassReadsItsTarget ==
    /\ \A i \in 1..Len(draws) : draws[i].target \notin draws[i].inputs
    /\ \A i \in 1..Len(ref.draws) : ref.draws[i].target \notin ref.draws[i].inputs

\* both loops have just rendered a frame: four passes each, the working
\* field both read (by map and displace) and written (by the copy-back)
C19_Witness ==
    /\ lastOp.op = "animate" /\ Len(draws) = 4
    /\ ref.op = "update" /\ Len(ref.draws) = 4
    /\ \E i, j \in 1..4 : /\ "image" \in draws[i].inputs
                          /\ draws[j].target = "image"
    /\ \E i, j \in 1..4 : /\ "image" \in ref.draws[i].inputs
                          /\ ref.draws[j].target = "image"

\* C20: at any time at most one requestAnimationFrame(animate) chain of the
\* ShaderCalendar is pending, so a display frame runs render() at most once.
C20_AtMostOneLoop ==
    Len(loops) <= 1

\* C21: a render() that runs while there is no source texture (before the
\* first image has loaded) issues no draw and leaves every field, the screen
\* and the time accumulator as they were.
C21_RenderNeedsImage ==
    [][ (lastOp'.op \in {"startAnimation", "animate"} /\ ~Truthy(sourceTexture)) =>
            /\ draws' = <<>>
            /\ fbos' = fbos /\ screen' = screen
            /\ time' = time /\ frames' = frames
            /\ sourceTexture' = sourceTexture
      ]_vars

\* a loop started before any image was loaded has had a frame callback
C21_Witness ==
    /\ lastOp.op = "animate"
    /\ currentImage = 0
    /\ ~Truthy(sourceTexture)
    /\ loops # <<>>
    /\ time = 0 /\ draws = <<>>

\* C22: on an engine whose init() completed, the oscillators list holds
\* exactly one pad voice per chord tone while isPlaying is true and is empty
\* while it is false.
C22_OnePadPerChordTone ==
    Initialized(snd) =>
        IF snd.isPlaying
        THEN /\ Len(snd.oscillators) = Len(padFrequencies)
             /\ \A i \in 1..Len(padFrequencies) :
                    snd.oscillators[i].baseFreq = padFrequencies[i]
        ELSE snd.oscillators = <<>>

\* C23: a stop() on a playing engine leaves isPlaying false and the list of
\* voices empty, having scheduled on every voice it held the fade of its gain
\* to 0 and the stop of its oscillator and LFO 2 s after the call; a note
\* timer that fires while the sound is off makes no note and leaves no
\* timer; and the sound comes back on only in start() (called directly or by
\* toggle, before or after its await).
C23_StopDestroysVoices ==
    [][ /\ (sndOp'.op = "stop" /\ sndOp'.ran) =>
              /\ ~snd'.isPlaying
              /\ snd'.oscillators = <<>>
              /\ Len(snd'.faded) = Len(snd.oscillators)
              /\ \A i \in 1..Len(snd.oscillators) :
                    /\ snd'.faded[i].baseFreq = snd.oscillators[i].baseFreq
                    /\ snd'.faded[i].gain.ramp = <<0, 2000>>
                    /\ snd'.faded[i].stopAt = <<2000>>
              /\ snd'.timers = snd.timers
        /\ (sndOp'.op = "playNote" /\ ~snd.isPlaying) =>
              /\ ~sndOp'.ran
              /\ Len(snd'.timers) = Len(snd.timers) - 1
              /\ snd'.oscillators = snd.oscillators
        /\ (~snd.isPlaying /\ snd'.isPlaying) =>
              sndOp'.op \in {"start", "startResume", "toggle"}
      ]_vars

\* the sound was stopped with three pads playing and a note timer pending
C23_Witness ==
    /\ sndOp.op = "stop" /\ sndOp.ran
    /\ ~snd.isPlaying
    /\ Len(snd.faded) = Len(padFrequencies)
    /\ snd.timers # <<>>

C25_UpdateDayRetargetsAll ==
    [][ /\ (sndOp'.op = "updateDay" /\ sndOp'.ran) =>
              LET params == getSoundParams(sndOp'.day)
              IN  /\ sndOp'.thrown = "none"
                  /\ snd'.currentDay = sndOp'.day
                  /\ \A i \in 1..Len(snd'.oscillators) :
                        LET v == snd'.oscillators[i]
                        IN  /\ v.filterFrequency.ramp = <<params.filterFrequency, 1000>>
                            /\ v.filterQ.ramp = <<params.filterQ, 1000>>
                            /\ v.gain.ramp # <<>> /\ v.gain.ramp[2] = 1000
                            /\ v.reverbGain.ramp = <<10 * params.reverbMix, 1000>>
                            /\ v.lfoFrequency.ramp = <<2 * params.vibratoSpeed, 1000>>
                            /\ v.lfoGain.ramp = <<2 * params.vibratoDepth, 1000>>
        /\ (sndOp'.op = "playNote" /\ sndOp'.ran) => sndOp'.day = snd.currentDay
      ]_vars

\* C27 (as claimed): at most one playNote timer is pending at any time,
\* whatever the sequence of start(), stop() and toggle().
C27_OneMelodyChain == Len(snd.timers) <= 1

\* C29 (as claimed): whenever the engine holds voices, masterGain and the
\* reverb node exist; and a start() or toggle() that ends with no voice
\* built leaves isPlaying false.
C29_StartNeedsInitializedEngine ==
    /\ snd.oscillators # <<>> => (snd.masterGain # <<>> /\ snd.reverbNode)
    /\ (sndOp.op \in {"start", "startResume", "toggle"} /\ snd.oscillators = <<>>) =>
          ~snd.isPlaying

\* C26 (as claimed): whenever the sound plays and no image load (and no
\* displayImage continuation) is in flight, the sound engine's day is the
\* pipeline's day.
C26_SoundDayFollowsImage ==
    (ui.open /\ snd.isPlaying /\ loads = {} /\ micro = <<>>) =>
        snd.currentDay = currentDay

\* C28 (as claimed): once no image load is in flight, none having failed,
\* the pipeline's day and image are those of the page's selectedDay.
C28_LastRequestedDayWins ==
    (ui.open /\ loads = {} /\ micro = <<>>) =>
        (currentDay = ui.selectedDay /\ currentImage = ui.selectedDay)

\* C30 (as claimed): no page initialization and no navigation lowers the
\* stored dementiaMaxDay, and a stored 31 stays 31.
C30_MaxDayNeverDecreases ==
    [][ /\ maxDayReached(ui') >= maxDayReached(ui)
        /\ maxDayReached(ui) = 31 => maxDayReached(ui') = 31 ]_vars

====
